---- MODULE Spec2Model ----
(***************************************************************************)
(* Model of the legion diagnostics module (src/src/legion/legion.py):      *)
(* the indentation-aware logger _CustomLogger, its multiline formatter and *)
(* the handler topology built by _CustomLogger.config.                     *)
(*                                                                         *)
(* Text is modelled as a sequence of one-character strings.  The tokens    *)
(* "T", "M", "F" and the level names stand for the rendered timestamp,     *)
(* milliseconds, calling function name and padded level name: texts that   *)
(* contain neither whitespace nor line breaks.                             *)
(***************************************************************************)
EXTENDS Integers, Sequences, FiniteSets, TLC

\* ------------------------------------------------------------------ bounds
MaxIndent == 3
MaxNegative == 2
MaxFmtLen == 3
MaxFileLines == 2
MaxStrerrorLen == 3
MaxFrames == 3

\* --------------------------------------------------------------- constants
NOTSET == 0
INFO == 20
WARNING == 30
ERROR == 40
\* logging.DEBUG, and an unnamed severity between INFO and WARNING
DEBUG == INFO - 10
NOTICE == INFO + 5

None == "None"
NL == "\n"
INDENTCHAR == " "
Whitespace == {" ", "\t", "\n"}

Paths == {"p1", "p2"}
\* Severities a caller can pass to Logger.log: named ones, the "unset"
\* level and an unnamed level between INFO and WARNING.
Levels == {NOTSET, DEBUG, INFO, NOTICE, WARNING, ERROR}

RECURSIVE SeqsUpTo(_, _)
SeqsUpTo(S, n) ==
    IF n = 0 THEN {<<>>}
    ELSE LET shorter == SeqsUpTo(S, n - 1)
         IN  shorter \cup {Append(s, c) : s \in shorter, c \in S}

\* Messages logged in the logger state machine, and the richer set used to
\* exercise the formatter.
FmtAlphabet == {"a", "b", " ", "\t", "\n"}
LogMsgs == {<<>>, <<"a">>, <<"a", NL, "a">>}
FmtMsgs == SeqsUpTo(FmtAlphabet, MaxFmtLen)

\* ------------------------------------------------------- string primitives
SetMax(S) == CHOOSE x \in S : \A y \in S : y <= x

\* str.split('\n')
RECURSIVE Split(_)
Split(s) ==
    IF \A i \in 1..Len(s) : s[i] # NL THEN <<s>>
    ELSE LET i == CHOOSE k \in 1..Len(s) : s[k] = NL /\ \A j \in 1..(k - 1) : s[j] # NL
         IN  <<SubSeq(s, 1, i - 1)>> \o Split(SubSeq(s, i + 1, Len(s)))

\* str.rstrip()
RECURSIVE RStrip(_)
RStrip(s) ==
    IF Len(s) > 0 /\ s[Len(s)] \in Whitespace
    THEN RStrip(SubSeq(s, 1, Len(s) - 1))
    ELSE s

\* '\n'.join(lines)
RECURSIVE Join(_)
Join(lines) ==
    IF Len(lines) = 0 THEN <<>>
    ELSE IF Len(lines) = 1 THEN lines[1]
    ELSE lines[1] \o <<NL>> \o Join(Tail(lines))

\* str.rfind(needle): highest 0-based index of an occurrence, -1 if none.
Rfind(hay, needle) ==
    LET idx == {i \in 0..(Len(hay) - Len(needle)) :
                    SubSeq(hay, i + 1, i + Len(needle)) = needle}
    IN  IF idx = {} THEN -1 ELSE SetMax(idx)

\* INDENTCHAR * n
Repeat(c, n) == [i \in 1..n |-> c]


\* ------------------------------------------------------------------- state
VARIABLES
    indentlevel,   \* _CustomLogger.indentlevel
    indentation,   \* _CustomLogger.indentation
    handlers,      \* the logger's handler list, in the order it is walked
    propagate,     \* the logger's propagate flag
    files,         \* per path: Absent, or the number of lines in the file
    cfgArgs,       \* arguments of the most recent config call
    op,            \* the most recent call
    raised,        \* whether the most recent call raised ValueError
    lastN,         \* argument of the most recent set_indent call
    lastLevel,     \* severity of the most recent log call
    lastMsg,       \* message of the most recent log call
    out,           \* what the most recent log call wrote, in write order
    discarded,     \* per path: lines the most recent config call truncated away
    text,          \* the message the calling program logs (formatter runs)
    exc,           \* the exception object handed to munge_oserror or excepthook
    platform,      \* sys.platform
    events,        \* what the most recent error/excepthook call did, in order
    result,        \* what the most recent munge_oserror/excepthook call returned or raised
    pc,            \* per thread: where it is in its indent() call
    loaded,        \* per thread: the indent level it read
    overlapped,    \* whether a thread took a step while another was inside its call
    base           \* the indent level before the threads' calls

vars == <<indentlevel, indentation, handlers, propagate, files, cfgArgs,
          op, raised, lastN, lastLevel, lastMsg, out, discarded, text,
          exc, platform, events, result, pc, loaded, overlapped, base>>

\* The state of the threads that share the logger.
threads == <<pc, loaded, overlapped, base>>

\* The state only the error reporting functions touch.
reporting == <<exc, platform, events, result>>

\* A path at which no file exists.
Absent == 0 - 1

\* ------------------------------------------------------ indentation state
INCREASE_INDENT_SYMBOL == "+"
DECREASE_INDENT_SYMBOL == "-"
IntArg == "int"

\* max(0, n)
Max0(n) == IF n > 0 THEN n ELSE 0

\* _CustomLogger._set_indentlevel takes a symbol or an integer: kind is the
\* symbol passed, or IntArg when the integer n is passed.
\* The argument is one the method accepts (otherwise it raises ValueError).
ValidLevel_AcceptsNegative(kind, n) == TRUE

ValidLevel(kind, n) ==
    \/ kind = INCREASE_INDENT_SYMBOL
    \/ kind = DECREASE_INDENT_SYMBOL
    \/ n >= 0

\* The level the method stores for an accepted argument.
NewIndentLevel_NoClamp(kind, n) ==
    IF kind = INCREASE_INDENT_SYMBOL THEN indentlevel + 1
    ELSE IF kind = DECREASE_INDENT_SYMBOL THEN indentlevel - 1
    ELSE n

NewIndentLevel_ClampAtOne(kind, n) ==
    IF kind = INCREASE_INDENT_SYMBOL THEN indentlevel + 1
    ELSE IF kind = DECREASE_INDENT_SYMBOL THEN Max0(indentlevel - 2) + 1
    ELSE n

NewIndentLevel(kind, n) ==
    IF kind = INCREASE_INDENT_SYMBOL THEN indentlevel + 1
    ELSE IF kind = DECREASE_INDENT_SYMBOL THEN Max0(indentlevel - 1)
    ELSE n

set_indentlevel_StaleIndentation(kind, n) ==
    IF ValidLevel(kind, n)
    THEN /\ raised' = FALSE
         /\ indentlevel' = NewIndentLevel(kind, n)
         /\ indentation' = IF kind = DECREASE_INDENT_SYMBOL THEN indentation
                           ELSE Repeat(INDENTCHAR, indentlevel')
    ELSE /\ raised' = TRUE
         /\ UNCHANGED <<indentlevel, indentation>>

set_indentlevel(kind, n) ==
    IF ValidLevel(kind, n)
    THEN /\ raised' = FALSE
         /\ indentlevel' = NewIndentLevel(kind, n)
         /\ indentation' = Repeat(INDENTCHAR, indentlevel')
    ELSE /\ raised' = TRUE
         /\ UNCHANGED <<indentlevel, indentation>>

NoRecord ==
    /\ lastLevel' = NOTSET
    /\ lastMsg' = <<>>
    /\ out' = <<>>
    /\ discarded' = [p \in Paths |-> 0]

set_indent(n) ==
    /\ op' = "set_indent"
    /\ lastN' = n
    /\ set_indentlevel(IntArg, n)
    /\ NoRecord
    /\ UNCHANGED <<handlers, propagate, files, cfgArgs, text>>
    /\ UNCHANGED reporting
    /\ UNCHANGED threads

indent ==
    /\ indentlevel < MaxIndent
    /\ op' = "indent"
    /\ lastN' = 0
    /\ set_indentlevel(INCREASE_INDENT_SYMBOL, 0)
    /\ NoRecord
    /\ UNCHANGED <<handlers, propagate, files, cfgArgs, text>>
    /\ UNCHANGED reporting
    /\ UNCHANGED threads

dedent ==
    /\ op' = "dedent"
    /\ lastN' = 0
    /\ set_indentlevel(DECREASE_INDENT_SYMBOL, 0)
    /\ NoRecord
    /\ UNCHANGED <<handlers, propagate, files, cfgArgs, text>>
    /\ UNCHANGED reporting
    /\ UNCHANGED threads

\* --------------------------------------------------------------- formatter
\* _CustomLogger.makeRecord: the record's msg, every line indented and
\* right-stripped.
IndentLine(line) == RStrip(indentation \o line)

IndentLines(lines) == [i \in 1..Len(lines) |-> IndentLine(lines[i])]

makeRecord(msg) == Join(IndentLines(Split(msg)))

LevelName(level) ==
    CASE level = DEBUG -> "DEBUG"
      [] level = INFO -> "INFO"
      [] level = WARNING -> "WARNING"
      [] level = ERROR -> "ERROR"
      [] OTHER -> "Level"

\* The text a format string renders before {message}.
DEBUGFILE_FORMAT(level) ==
    <<"T", ".", "M", " ", LevelName(level), " ", "|", " ", "F", "(", ")", " ">>
LOGFILE_FORMAT == <<"T", " ">>
CONSOLE_FORMAT == <<>>

FormatOf(name, level) ==
    CASE name = "debugfile_handler" -> DEBUGFILE_FORMAT(level)
      [] name = "logfile_handler" -> LOGFILE_FORMAT
      [] OTHER -> CONSOLE_FORMAT

\* _CustomFormatter.format
\* formatted_record[0:stop]
SliceTo(s, stop) == SubSeq(s, 1, IF stop < 0 THEN Len(s) + stop ELSE stop)

FormatLines_NoStrip(preamble, lines) == Join([i \in 1..Len(lines) |-> preamble \o lines[i]])

FormatLines(preamble, lines) == Join([i \in 1..Len(lines) |-> RStrip(preamble \o lines[i])])

\* logging.Formatter.format, which _CustomFormatter.format extends
format_PreambleOnce(fmt, message) == fmt \o message

format(fmt, message) ==
    LET formatted_record == fmt \o message
        preamble == SliceTo(formatted_record, Rfind(formatted_record, message))
    IN  FormatLines(preamble, Split(message))

\* The handlers that use _CustomFormatter; the root handler installed by
\* basicConfig and logging's last-resort handler render the bare message.
CustomFormatted == {"debugfile_handler", "logfile_handler", "stdout_handler", "stderr_handler"}

Rendered(name, level, message) ==
    IF name \in CustomFormatted THEN format(FormatOf(name, level), message)
    ELSE message

\* ------------------------------------------------------------------ router
HandlerLevel(name) ==
    CASE name = "debugfile_handler" -> NOTSET
      [] name = "logfile_handler" -> INFO
      [] name = "stdout_handler" -> NOTSET
      [] name = "stderr_handler" -> WARNING
      [] name = "lastResort" -> WARNING
      [] OTHER -> NOTSET

console_filter_AtLeast(level) == level >= INFO

console_filter(level) == level = INFO

HandlerFilter(name, level) ==
    IF name = "stdout_handler" THEN console_filter(level) ELSE TRUE

Accepts(name, level) == level >= HandlerLevel(name) /\ HandlerFilter(name, level)

\* Logger.isEnabledFor with the logger and the root both at NOTSET.
isEnabledFor(level) == level > NOTSET

RootHandler == [name |-> "root_handler", stream |-> "stderr"]
LastResort == [name |-> "lastResort", stream |-> "stderr"]

\* Logger.callHandlers: the handlers that get the record, in call order.
callHandlers(level) ==
    LET chain == IF propagate THEN handlers \o <<RootHandler>> ELSE handlers
        Takes(h) == Accepts(h.name, level)
    IN  IF Len(chain) = 0
        THEN (IF Accepts("lastResort", level) THEN <<LastResort>> ELSE <<>>)
        ELSE SelectSeq(chain, Takes)

\* StreamHandler.emit: the formatted record and the line terminator.
Emit(h, level, message) ==
    [handler |-> h.name, stream |-> h.stream,
     written |-> Rendered(h.name, level, message) \o <<NL>>]

\* The physical lines of a write that ends with the terminator.
PhysicalLines(written) == Split(SubSeq(written, 1, Len(written) - 1))

\* Logger.handle: every handler that takes the record emits it.
handle(level, message, takers) ==
    [i \in 1..Len(takers) |-> Emit(takers[i], level, message)]

Writes(level, msg) ==
    IF isEnabledFor(level)
    THEN handle(level, makeRecord(msg), callHandlers(level))
    ELSE <<>>

LinesTo(ws, p) ==
    LET idx == {i \in 1..Len(ws) : ws[i].stream = p}
    IN  IF idx = {} THEN 0
        ELSE Len(PhysicalLines(ws[CHOOSE i \in idx : TRUE].written))

\* Logger.log(level, msg)
log(level, msg) ==
    /\ out' = Writes(level, msg)
    /\ \A p \in Paths : LinesTo(out', p) > 0 => files[p] + LinesTo(out', p) <= MaxFileLines
    /\ files' = [p \in Paths |-> files[p] + LinesTo(out', p)]
    /\ op' = "log"
    /\ raised' = FALSE
    /\ lastN' = 0
    /\ lastLevel' = level
    /\ lastMsg' = msg
    /\ discarded' = [p \in Paths |-> 0]
    /\ UNCHANGED <<indentlevel, indentation, handlers, propagate, cfgArgs, text>>
    /\ UNCHANGED reporting
    /\ UNCHANGED threads

\* ----------------------------------------------------------- configuration
\* The handlers dictionary built by config, in insertion order.
ConfigHandlers_ConsoleFirst(debugfile, logfile, console) ==
    (IF console THEN <<[name |-> "stdout_handler", stream |-> "stdout"],
                       [name |-> "stderr_handler", stream |-> "stderr"]>> ELSE <<>>)
    \o (IF debugfile # None THEN <<[name |-> "debugfile_handler", stream |-> debugfile]>> ELSE <<>>)
    \o (IF logfile # None THEN <<[name |-> "logfile_handler", stream |-> logfile]>> ELSE <<>>)

ConfigHandlers(debugfile, logfile, console) ==
    (IF debugfile # None THEN <<[name |-> "debugfile_handler", stream |-> debugfile]>> ELSE <<>>)
    \o (IF logfile # None THEN <<[name |-> "logfile_handler", stream |-> logfile]>> ELSE <<>>)
    \o (IF console THEN <<[name |-> "stdout_handler", stream |-> "stdout"],
                          [name |-> "stderr_handler", stream |-> "stderr"]>> ELSE <<>>)

\* dictConfig on the logger's entry: the old handlers are removed and the
\* new ones added.
NewHandlers_Accumulate(old, built) == old \o built

NewHandlers(old, built) == built

\* FileHandler opened with mode 'w': the file exists and is empty.
OpenFile_Append(lines) == Max0(lines)

OpenFile(lines) == 0

config_ResetsIndent(debugfile, logfile, console) ==
    /\ debugfile = None \/ debugfile # logfile
    /\ op' = "config"
    /\ raised' = FALSE
    /\ lastN' = 0
    /\ cfgArgs' = [debugfile |-> debugfile, logfile |-> logfile, console |-> console]
    /\ handlers' = NewHandlers(handlers, ConfigHandlers(debugfile, logfile, console))
    /\ propagate' = FALSE
    /\ files' = [p \in Paths |-> IF p \in {debugfile, logfile} THEN OpenFile(files[p]) ELSE files[p]]
    /\ lastLevel' = NOTSET
    /\ lastMsg' = <<>>
    /\ out' = <<>>
    /\ discarded' = [p \in Paths |-> IF p \in {debugfile, logfile} THEN Max0(files[p]) ELSE 0]
    /\ indentlevel' = 0
    /\ indentation' = <<>>
    /\ UNCHANGED text
    /\ UNCHANGED reporting
    /\ UNCHANGED threads

\* _CustomLogger.config(debugfile, logfile, console), the two paths being
\* different files when both are given.
config(debugfile, logfile, console) ==
    /\ debugfile = None \/ debugfile # logfile
    /\ op' = "config"
    /\ raised' = FALSE
    /\ lastN' = 0
    /\ cfgArgs' = [debugfile |-> debugfile, logfile |-> logfile, console |-> console]
    /\ handlers' = NewHandlers(handlers, ConfigHandlers(debugfile, logfile, console))
    /\ propagate' = FALSE
    /\ files' = [p \in Paths |-> IF p \in {debugfile, logfile} THEN OpenFile(files[p]) ELSE files[p]]
    /\ lastLevel' = NOTSET
    /\ lastMsg' = <<>>
    /\ out' = <<>>
    /\ discarded' = [p \in Paths |-> IF p \in {debugfile, logfile} THEN Max0(files[p]) ELSE 0]
    /\ UNCHANGED <<indentlevel, indentation, text>>
    /\ UNCHANGED reporting
    /\ UNCHANGED threads

\* -------------------------------------------------------- exception objects
\* An attribute that holds None, and one that holds the value x.
Nothing == <<>>
Some(x) == <<x>>

\* Python truth value of an optional integer and of an optional string:
\* None, 0 and '' are false.
TruthyInt(v) == v # Nothing /\ v[1] # 0
TruthyStr(v) == v # Nothing /\ Len(v[1]) > 0

\* a or b, on values whose false case is Nothing
Or(a, b) == IF a # Nothing THEN a ELSE b

\* The outcome of evaluating an expression: its value, or the exception raised.
Returns(v) == [raises |-> "", value |-> v]
Raises(e) == [raises |-> e, value |-> Nothing]

\* with contextlib.suppress(e): the named exception is swallowed (the
\* assignment under it has not happened, so the target keeps its default);
\* any other exception passes through.
Suppress(e, outcome, default) ==
    IF outcome.raises = e THEN Returns(default) ELSE outcome

\* errno.errorcode
errorcode == [n \in {2, 13} |-> IF n = 2 THEN "ENOENT" ELSE "EACCES"]

\* errorcode[n]
Lookup(n) == IF n \in DOMAIN errorcode THEN Returns(<<errorcode[n]>>) ELSE Raises("KeyError")

\* exception.winerror: OSError has the attribute on Windows only, unless a
\* subclass defines it.
GetWinerror(e) == IF e.has_winerror THEN Returns(e.winerror) ELSE Raises("AttributeError")

\* str(n) of a small integer
Str(n) == ToString(n)

NoException ==
    [type |-> "None", errno |-> Nothing, has_winerror |-> FALSE, winerror |-> Nothing,
     strerror |-> Nothing, filename |-> None, filename2 |-> None,
     args |-> <<>>, tb |-> <<>>]

\* An OSError object: errno, winerror, strerror, filename and filename2 are
\* what its constructor stored, None by default.
OSErrorObject(errno, has_winerror, winerror, strerror, filename, filename2, tb) ==
    [type |-> "OSError", errno |-> errno, has_winerror |-> has_winerror,
     winerror |-> winerror, strerror |-> strerror, filename |-> filename,
     filename2 |-> filename2, args |-> <<>>, tb |-> tb]

\* errno: None, zero, two table entries and a number the table lacks.
Errnos == {Nothing, Some(0), Some(2), Some(13), Some(99)}
\* winerror: None, zero and a native code.
Winerrors == {Nothing, Some(0), Some(3)}
StrerrorAlphabet == {"a", "A", "."}
Strerrors == {Nothing} \cup {Some(t) : t \in SeqsUpTo(StrerrorAlphabet, MaxStrerrorLen)}

\* ---------------------------------------------------------------- messages
PROGRAM_NAME == "legion"
ERROR_MARKER == <<"*", "*", "*", " ">>
ERROR_HEADER == <<NL>> \o ERROR_MARKER \o <<"Error in ", PROGRAM_NAME, ".">>
ERROR_DETAILS_HEADING == <<NL, "Additional error information:">>
\* The box-drawing characters are written | and \ here.
ERROR_DETAILS_PREAMBLE == <<"|", " ">>
ERROR_DETAILS_TAIL == <<"\\">>
UNEXPECTED_OSERROR == <<"Unexpected OSError.">>
UNHANDLED_EXCEPTION == <<"Unhandled exception.">>
TRACEBACK_TOPLEVEL_FRAME == "<module>"
TracebackTitle == "traceback:"

\* The labels of OSERROR_DETAILS, right-aligned with spaces.
OSERROR_DETAILS(type, errno, winerror, strerror, filename, filename2) ==
    Repeat(" ", 5) \o <<"type = ">> \o type \o <<NL>>
    \o Repeat(" ", 4) \o <<"errno = ">> \o errno \o <<NL>>
    \o Repeat(" ", 1) \o <<"winerror = ">> \o winerror \o <<NL>>
    \o Repeat(" ", 1) \o <<"strerror = ">> \o strerror \o <<NL>>
    \o Repeat(" ", 1) \o <<"filename = ">> \o filename \o <<NL>>
    \o <<"filename2 = ">> \o filename2

EXCEPTION_DETAILS(type, value, args) ==
    <<"type = ">> \o type \o <<NL, "value = ">> \o value \o <<NL, "args:", " ">> \o args

EXCEPTION_DETAILS_ARG(type, arg) == <<NL, " ", " ", "[", type, "]", " ", arg>>

TRACEBACK_HEADER(traceback) == <<NL, NL, TracebackTitle, NL>> \o traceback

\* The arrow character is written > here.
TRACEBACK_FRAME_HEADER(filename) == <<">", " ", filename, NL>>

TRACEBACK_FRAME_LINE(lineno, name, line) ==
    <<" ", " ", Str(lineno), ",", " ", name, ":", " ", line, NL>>

\* str.lstrip() and str.strip()
RECURSIVE LStrip(_)
LStrip(str) ==
    IF Len(str) > 0 /\ str[1] \in Whitespace THEN LStrip(Tail(str)) ELSE str

Strip(str) == LStrip(RStrip(str))

\* ------------------------------------------------------------ munge_oserror
OSERROR_DETAIL_NA == <<"N/A">>
OSERROR_WINERROR(n) == <<"WinError", Str(n)>>

OSERROR_ERRORCODES_WinFirst(a, b) == b \o <<"/">> \o a

OSERROR_ERRORCODES(a, b) == a \o <<"/">> \o b

\* str.upper() of one character
Upper(c) == IF c = "a" THEN "A" ELSE c

\* str.rstrip(chars)
RECURSIVE RStripChars(_, _)
RStripChars(str, chars) ==
    IF Len(str) > 0 /\ str[Len(str)] \in chars
    THEN RStripChars(SubSeq(str, 1, Len(str) - 1), chars)
    ELSE str

\* The guarded read of exception.winerror.
munge_winerror(e) ==
    LET read == GetWinerror(e)
        formatted == IF read.raises # "" THEN read
                     ELSE Returns(IF TruthyInt(read.value)
                                  THEN OSERROR_WINERROR(read.value[1]) ELSE Nothing)
    IN  Suppress("AttributeError", formatted, Nothing)

\* The guarded lookup of exception.errno.
munge_errno_SuppressIndexError(e) ==
    IF TruthyInt(e.errno)
    THEN Suppress("IndexError", Lookup(e.errno[1]), Nothing)
    ELSE Returns(Nothing)

munge_errno(e) ==
    IF TruthyInt(e.errno)
    THEN Suppress("KeyError", Lookup(e.errno[1]), Nothing)
    ELSE Returns(Nothing)

\* f'{strerror[0].upper()}{strerror[1:].rstrip(".")}.'
munge_message(strerror) ==
    <<Upper(strerror[1])>> \o RStripChars(SubSeq(strerror, 2, Len(strerror)), {"."}) \o <<".">>

munge_oserror(e) ==
    LET winerror == munge_winerror(e)
        errno == munge_errno(e)
    IN  IF winerror.raises # "" THEN Raises(winerror.raises)
        ELSE IF errno.raises # "" THEN Raises(errno.raises)
        ELSE LET exc_winerror == winerror.value
                 exc_errno == errno.value
                 both == IF exc_errno # Nothing /\ exc_winerror # Nothing
                         THEN OSERROR_ERRORCODES(exc_errno, exc_winerror)
                         ELSE Nothing
                 exc_errorcodes == Or(both, Or(exc_errno, Or(exc_winerror, OSERROR_DETAIL_NA)))
                 exc_message == IF TruthyStr(e.strerror) THEN munge_message(e.strerror[1]) ELSE <<>>
             IN  Returns(<<e.type, exc_errorcodes, exc_message, e.filename, e.filename2>>)

NoResult == Returns(<<>>)

\* The call munge_oserror(exc).
Munge ==
    /\ op = "init"
    /\ op' = "munge_oserror"
    /\ result' = munge_oserror(exc)
    /\ raised' = (result'.raises # "")
    /\ UNCHANGED <<indentlevel, indentation, handlers, propagate, files, cfgArgs,
                   lastN, lastLevel, lastMsg, out, discarded, text,
                   exc, platform, events>>
    /\ UNCHANGED threads

\* -------------------------------------------------------------------- error
\* A call made while reporting: ev names it, n is the indent level it sets
\* (set_indent) or the level in force when it runs (error), msg its text.
Call(ev, n, msg) == [ev |-> ev, n |-> n, msg |-> msg]

PAYLOAD_INDENT == Len(ERROR_MARKER)

\* f'{ERROR_DETAILS_PREAMBLE}{line}' for every line
PreambleLines(lines) == [i \in 1..Len(lines) |-> ERROR_DETAILS_PREAMBLE \o lines[i]]

\* The calls error(message, details) makes on the logger, in order.
error_calls(message, details) ==
    LET stripped == Strip(details)
    IN  <<Call("set_indent", 0, <<>>),
          Call("error", 0, ERROR_HEADER),
          Call("set_indent", PAYLOAD_INDENT, <<>>),
          Call("error", 0, message)>>
        \o (IF Len(stripped) > 0
            THEN <<Call("error", 0, ERROR_DETAILS_HEADING),
                   Call("error", 0, Join(PreambleLines(Split(stripped)))),
                   Call("error", 0, ERROR_DETAILS_TAIL)>>
            ELSE <<>>)
        \o <<Call("set_indent", 0, <<>>)>>

\* The calls as they run from the given indent level: set_indent stores its
\* level, logger.error runs at the level in force.
RECURSIVE RunCalls(_, _)
RunCalls(calls, level) ==
    IF Len(calls) = 0 THEN <<>>
    ELSE LET c == Head(calls)
         IN  IF c.ev = "set_indent"
             THEN <<c>> \o RunCalls(Tail(calls), NewIndentLevel(IntArg, c.n))
             ELSE IF c.ev = "error"
             THEN <<Call(c.ev, level, c.msg)>> \o RunCalls(Tail(calls), level)
             ELSE <<c>> \o RunCalls(Tail(calls), level)

\* makeRecord and Logger.handle at a given indent level.
IndentLinesAt(level, lines) ==
    [i \in 1..Len(lines) |-> RStrip(Repeat(INDENTCHAR, level) \o lines[i])]

makeRecordAt(level, msg) == Join(IndentLinesAt(level, Split(msg)))

WritesAt(indent_level, level, msg) ==
    IF isEnabledFor(level)
    THEN handle(level, makeRecordAt(indent_level, msg), callHandlers(level))
    ELSE <<>>

\* Everything the logger.error calls among the events wrote, in write order.
RECURSIVE ReportWrites(_)
ReportWrites(evs) ==
    IF Len(evs) = 0 THEN <<>>
    ELSE (IF Head(evs).ev = "error"
          THEN WritesAt(Head(evs).n, ERROR, Head(evs).msg) ELSE <<>>)
         \o ReportWrites(Tail(evs))

\* The lines the writes add to the file at path p.
RECURSIVE ReportLinesTo(_, _)
ReportLinesTo(ws, p) ==
    IF Len(ws) = 0 THEN 0
    ELSE (IF Head(ws).stream = p THEN Len(PhysicalLines(Head(ws).written)) ELSE 0)
         + ReportLinesTo(Tail(ws), p)

\* The indent level the events leave behind.
IndentAfter(evs) ==
    LET idx == {i \in 1..Len(evs) : evs[i].ev = "set_indent"}
    IN  IF idx = {} THEN indentlevel ELSE NewIndentLevel(IntArg, evs[SetMax(idx)].n)

\* What a reporting call that produced the events leaves in the logger.
Reported ==
    /\ out' = ReportWrites(events')
    /\ files' = [p \in Paths |-> files[p] + ReportLinesTo(out', p)]
    /\ indentlevel' = IndentAfter(events')
    /\ indentation' = Repeat(INDENTCHAR, indentlevel')
    /\ lastN' = 0
    /\ lastLevel' = ERROR
    /\ discarded' = [p \in Paths |-> 0]
    /\ UNCHANGED <<handlers, propagate, cfgArgs, text, exc, platform>>
    /\ UNCHANGED threads

\* error(message, details)
error(message, details) ==
    /\ op' = "error"
    /\ raised' = FALSE
    /\ result' = NoResult
    /\ lastMsg' = message
    /\ events' = RunCalls(error_calls(message, details), indentlevel)
    /\ Reported

\* --------------------------------------------------------------- excepthook
\* The exception classes of the model and the class each derives from.
OSErrorTypes == {"OSError"}
InterruptTypes == {"KeyboardInterrupt", "UserAbort"}

\* issubclass(exc_type, KeyboardInterrupt)
IsInterrupt_ExactType(e) == e.type = "KeyboardInterrupt"

IsInterrupt(e) == e.type \in InterruptTypes

\* isinstance(exc_value, OSError)
IsOSError(e) == e.type \in OSErrorTypes

\* A traceback frame as tb.extract_tb gives it.
Frame(filename, name) ==
    [filename |-> filename, lineno |-> IF name = TRACEBACK_TOPLEVEL_FRAME THEN 1 ELSE 2,
     name |-> name, line |-> "<line>"]

Frames == {Frame(f, m) : f \in {"f1", "f2"}, m \in {TRACEBACK_TOPLEVEL_FRAME, "g"}}

Tracebacks == SeqsUpTo(Frames, MaxFrames)

\* frame.name as it is logged
FrameName(name) == IF name = TRACEBACK_TOPLEVEL_FRAME THEN PROGRAM_NAME ELSE name

\* The loop over the frames, from the frame list and current_filename.
RECURSIVE format_traceback_FirstHeaderOnly(_, _)
format_traceback_FirstHeaderOnly(frames, current_filename) ==
    IF Len(frames) = 0 THEN <<>>
    ELSE LET frame == Head(frames)
         IN  (IF current_filename = None
              THEN TRACEBACK_FRAME_HEADER(frame.filename) ELSE <<>>)
             \o TRACEBACK_FRAME_LINE(frame.lineno, FrameName(frame.name), frame.line)
             \o format_traceback_FirstHeaderOnly(Tail(frames), frame.filename)

RECURSIVE format_traceback(_, _)
format_traceback(frames, current_filename) ==
    IF Len(frames) = 0 THEN <<>>
    ELSE LET frame == Head(frames)
         IN  (IF current_filename # frame.filename
              THEN TRACEBACK_FRAME_HEADER(frame.filename) ELSE <<>>)
             \o TRACEBACK_FRAME_LINE(frame.lineno, FrameName(frame.name), frame.line)
             \o format_traceback(Tail(frames), frame.filename)

\* details += TRACEBACK_HEADER.format(traceback) if traceback else ''
traceback_details(e) ==
    LET traceback == format_traceback(e.tb, None)
    IN  IF Len(traceback) > 0 THEN TRACEBACK_HEADER(traceback) ELSE <<>>

\* '{}'.format(v) of an optional string: None prints as None.
FormatStr(v) == IF v = Nothing THEN <<"None">> ELSE v[1]

\* N/A if filename is None else filename
FilenameOrNA(filename) == IF filename = None THEN OSERROR_DETAIL_NA ELSE <<filename>>

\* The lookup of exc_value.errno.
hook_errno(e) ==
    IF TruthyInt(e.errno)
    THEN Suppress("IndexError", Lookup(e.errno[1]), OSERROR_DETAIL_NA)
    ELSE Returns(OSERROR_DETAIL_NA)

\* exc_value.winerror or N/A
hook_winerror(e) ==
    LET read == GetWinerror(e)
    IN  IF read.raises # "" THEN read
        ELSE Returns(IF TruthyInt(read.value) THEN <<Str(read.value[1])>>
                     ELSE OSERROR_DETAIL_NA)

\* str(exc_value) and the args of an exception that is no OSError
ExcStr(args) ==
    IF Len(args) = 0 THEN <<>>
    ELSE IF Len(args) = 1 THEN <<args[1].str>>
    ELSE <<"<args>">>

RECURSIVE format_args(_)
format_args(args) ==
    IF Len(args) = 0 THEN <<>>
    ELSE EXCEPTION_DETAILS_ARG(Head(args).type, Head(args).str) \o format_args(Tail(args))

\* The headline of the report.
hook_message(e) == IF IsOSError(e) THEN UNEXPECTED_OSERROR ELSE UNHANDLED_EXCEPTION

\* The details of the report, or the exception building them raises.
hook_details(e) ==
    IF IsOSError(e)
    THEN LET errno_message == hook_errno(e)
             winerror == hook_winerror(e)
         IN  IF errno_message.raises # "" THEN errno_message
             ELSE IF winerror.raises # "" THEN winerror
             ELSE Returns(OSERROR_DETAILS(<<e.type>>, errno_message.value, winerror.value,
                                          FormatStr(e.strerror), FilenameOrNA(e.filename),
                                          FilenameOrNA(e.filename2))
                          \o traceback_details(e))
    ELSE Returns(EXCEPTION_DETAILS(<<e.type>>, ExcStr(e.args), format_args(e.args))
                 \o traceback_details(e))

\* The modal dialog shown on win32 and darwin, with the message as its text.
alert_calls_Details(message, details) ==
    IF platform \in {"win32", "darwin"} THEN <<Call("alert", 0, message \o details)>> ELSE <<>>

alert_calls(message, details) ==
    IF platform \in {"win32", "darwin"} THEN <<Call("alert", 0, message)>> ELSE <<>>

\* The calls excepthook makes, given the details it built.
hook_calls(e, details) ==
    IF IsInterrupt(e) THEN <<Call("sys.__excepthook__", 0, <<>>)>>
    ELSE IF details.raises # "" THEN <<>>
    ELSE error_calls(hook_message(e), details.value)
         \o alert_calls(hook_message(e), details.value)

\* excepthook(type(exc), exc, exc.__traceback__)
excepthook ==
    /\ exc # NoException
    /\ op' = "excepthook"
    /\ result' = IF IsInterrupt(exc) THEN NoResult
                 ELSE IF hook_details(exc).raises # "" THEN Raises(hook_details(exc).raises)
                 ELSE NoResult
    /\ raised' = (result'.raises # "")
    /\ lastMsg' = hook_message(exc)
    /\ events' = RunCalls(hook_calls(exc, IF IsInterrupt(exc) THEN NoResult ELSE hook_details(exc)),
                          indentlevel)
    /\ Reported

\* ------------------------------------------------------------ legacy module
\* errorcode[exception.errno], exception.errno being None or a number
LegacyLookup(errno) == IF errno = Nothing THEN Raises("KeyError") ELSE Lookup(errno[1])

\* exception.strerror[0]: None is not subscriptable, '' has no first character
LegacyFirstChar(strerror) ==
    IF strerror = Nothing THEN Raises("TypeError")
    ELSE IF Len(strerror[1]) = 0 THEN Raises("IndexError")
    ELSE Returns(strerror[1][1])

\* munge_oserror of the legacy module
legacy_munge_oserror(e) ==
    LET winerror == Suppress("AttributeError",
                             IF GetWinerror(e).raises # "" THEN GetWinerror(e)
                             ELSE Returns(IF TruthyInt(e.winerror)
                                          THEN OSERROR_WINERROR(e.winerror[1]) ELSE Nothing),
                             Nothing)
        errno == Suppress("KeyError", LegacyLookup(e.errno), Nothing)
        first == LegacyFirstChar(e.strerror)
    IN  IF winerror.raises # "" THEN Raises(winerror.raises)
        ELSE IF errno.raises # "" THEN Raises(errno.raises)
        ELSE IF first.raises # "" THEN Raises(first.raises)
        ELSE LET exc_winerror == winerror.value
                 exc_errno == errno.value
                 both == IF exc_errno # Nothing /\ exc_winerror # Nothing
                         THEN OSERROR_ERRORCODES(exc_errno, exc_winerror)
                         ELSE Nothing
                 exc_errorcodes == Or(both, Or(exc_errno, Or(exc_winerror, OSERROR_DETAIL_NA)))
                 exc_message == munge_message(e.strerror[1])
             IN  Returns(<<e.type, exc_errorcodes, exc_message, e.filename, e.filename2>>)

\* The call munge_oserror(exc) on the legacy module.
LegacyMunge ==
    /\ op' = "legacy.munge_oserror"
    /\ result' = legacy_munge_oserror(exc)
    /\ raised' = (result'.raises # "")
    /\ UNCHANGED <<indentlevel, indentation, handlers, propagate, files, cfgArgs,
                   lastN, lastLevel, lastMsg, out, discarded, text,
                   exc, platform, events>>
    /\ UNCHANGED threads

\* set_indent_level of setup_logging: the level the root logger gets.
legacy_set_indent_level(level, n) ==
    IF level = INCREASE_INDENT_SYMBOL THEN indentlevel + 1
    ELSE IF level = DECREASE_INDENT_SYMBOL THEN indentlevel - 1
    ELSE n

\* logging.indent() and logging.dedent() of the legacy module, called without
\* an argument.
legacy_indent ==
    /\ indentlevel < MaxIndent
    /\ op' = "logging.indent"
    /\ raised' = FALSE
    /\ indentlevel' = legacy_set_indent_level(INCREASE_INDENT_SYMBOL, 0)
    /\ UNCHANGED <<indentation, handlers, propagate, files, cfgArgs,
                   lastN, lastLevel, lastMsg, out, discarded, text>>
    /\ UNCHANGED reporting
    /\ UNCHANGED threads

legacy_dedent ==
    /\ indentlevel > 0 - MaxNegative
    /\ op' = "logging.dedent"
    /\ raised' = FALSE
    /\ indentlevel' = legacy_set_indent_level(DECREASE_INDENT_SYMBOL, 0)
    /\ UNCHANGED <<indentation, handlers, propagate, files, cfgArgs,
                   lastN, lastLevel, lastMsg, out, discarded, text>>
    /\ UNCHANGED reporting
    /\ UNCHANGED threads

\* ------------------------------------------------------------------ threads
Threads == {1, 2}

\* No thread is calling the logger.
NoThreads ==
    /\ pc = [t \in Threads |-> "idle"]
    /\ loaded = [t \in Threads |-> 0]
    /\ overlapped = FALSE
    /\ base = 0

\* A thread other than t is inside its call: it has read the level and not
\* yet stored the indentation.
OtherInside(t) == \E u \in Threads \ {t} : pc[u] \in {"loaded", "stored"}

\* indent() run by thread t, one step per read or write of the logger's
\* attributes. self.indentlevel += 1 reads the attribute ...
thread_load_Locked(t) ==
    /\ pc[t] = "call"
    /\ ~OtherInside(t)
    /\ loaded' = [loaded EXCEPT ![t] = indentlevel]
    /\ pc' = [pc EXCEPT ![t] = "loaded"]
    /\ overlapped' = (overlapped \/ OtherInside(t))
    /\ UNCHANGED <<indentlevel, indentation, base>>

thread_load(t) ==
    /\ pc[t] = "call"
    /\ loaded' = [loaded EXCEPT ![t] = indentlevel]
    /\ pc' = [pc EXCEPT ![t] = "loaded"]
    /\ overlapped' = (overlapped \/ OtherInside(t))
    /\ UNCHANGED <<indentlevel, indentation, base>>

\* ... and stores the value read plus one;
thread_store(t) ==
    /\ pc[t] = "loaded"
    /\ indentlevel' = loaded[t] + 1
    /\ pc' = [pc EXCEPT ![t] = "stored"]
    /\ overlapped' = (overlapped \/ OtherInside(t))
    /\ UNCHANGED <<indentation, loaded, base>>

\* self.indentation = self.INDENTCHAR * self.indentlevel
thread_cache(t) ==
    /\ pc[t] = "stored"
    /\ indentation' = Repeat(INDENTCHAR, indentlevel)
    /\ pc' = [pc EXCEPT ![t] = "done"]
    /\ overlapped' = (overlapped \/ OtherInside(t))
    /\ UNCHANGED <<indentlevel, loaded, base>>

\* What a step of a thread's indent() leaves alone.
ThreadFrame ==
    /\ op' = "thread_indent"
    /\ UNCHANGED <<handlers, propagate, files, cfgArgs, raised, lastN, lastLevel,
                   lastMsg, out, discarded, text>>
    /\ UNCHANGED reporting

\* ------------------------------------------------------------ specification
Init ==
    /\ indentlevel = 0
    /\ indentation = <<>>
    /\ handlers = <<>>
    /\ propagate = TRUE
    /\ files \in [Paths -> {Absent, 1}]
    /\ cfgArgs = [debugfile |-> None, logfile |-> None, console |-> FALSE]
    /\ op = "init"
    /\ raised = FALSE
    /\ lastN = 0
    /\ lastLevel = NOTSET
    /\ lastMsg = <<>>
    /\ out = <<>>
    /\ discarded = [p \in Paths |-> 0]
    /\ text = <<>>
    /\ exc = NoException
    /\ platform = "linux"
    /\ events = <<>>
    /\ result = NoResult
    /\ NoThreads

SetIndent == \E n \in (0 - MaxNegative)..MaxIndent : set_indent(n)
Indent == indent
Dedent == dedent
Log == \E level \in Levels, msg \in LogMsgs : log(level, msg)
Config == \E debugfile \in Paths \cup {None}, logfile \in Paths \cup {None}, console \in BOOLEAN :
              config(debugfile, logfile, console)

Next == SetIndent \/ Indent \/ Dedent \/ Log \/ Config

Spec == Init /\ [][Next]_vars

\* The formatter exercised on the richer message set: a program that logs
\* one text, at any indent level, to the console sinks or to all four sinks.
InitFmt ==
    /\ indentlevel = 0
    /\ indentation = <<>>
    /\ handlers = <<>>
    /\ propagate = TRUE
    /\ files = [p \in Paths |-> Absent]
    /\ cfgArgs = [debugfile |-> None, logfile |-> None, console |-> FALSE]
    /\ op = "init"
    /\ raised = FALSE
    /\ lastN = 0
    /\ lastLevel = NOTSET
    /\ lastMsg = <<>>
    /\ out = <<>>
    /\ discarded = [p \in Paths |-> 0]
    /\ text \in FmtMsgs
    /\ exc = NoException
    /\ platform = "linux"
    /\ events = <<>>
    /\ result = NoResult
    /\ NoThreads

LogFmt == \E level \in {INFO, ERROR} : log(level, text)
ConfigFmt == \E debugfile \in {None, "p1"} :
                 config(debugfile, IF debugfile = None THEN None ELSE "p2", TRUE)

NextFmt == SetIndent \/ ConfigFmt \/ LogFmt

SpecFmt == InitFmt /\ [][NextFmt]_vars

\* munge_oserror applied to one OSError object.
InitOs ==
    /\ indentlevel = 0
    /\ indentation = <<>>
    /\ handlers = <<>>
    /\ propagate = TRUE
    /\ files = [p \in Paths |-> Absent]
    /\ cfgArgs = [debugfile |-> None, logfile |-> None, console |-> FALSE]
    /\ op = "init"
    /\ raised = FALSE
    /\ lastN = 0
    /\ lastLevel = NOTSET
    /\ lastMsg = <<>>
    /\ out = <<>>
    /\ discarded = [p \in Paths |-> 0]
    /\ text = <<>>
    /\ \E errno \in Errnos, has_winerror \in BOOLEAN, winerror \in Winerrors,
          strerror \in Strerrors, filename \in {None, "f1"}, filename2 \in {None, "f2"} :
          /\ has_winerror \/ winerror = Nothing
          /\ exc = OSErrorObject(errno, has_winerror, winerror, strerror,
                                 filename, filename2, <<>>)
    /\ platform = "linux"
    /\ events = <<>>
    /\ result = NoResult
    /\ NoThreads

NextOs == Munge

SpecOs == InitOs /\ [][NextOs]_vars

\* A program on one platform, its logger unconfigured or configured for the
\* console, that sets indent levels and either reports errors of its own
\* through error() or dies of one uncaught exception, which ends the run.
OSErrorsRaised ==
    {OSErrorObject(errno, has_winerror, winerror,
                   IF tb = <<>> THEN Nothing ELSE Some(<<"a">>), names[1], names[2], tb) :
        errno \in Errnos, has_winerror \in BOOLEAN, winerror \in Winerrors,
        names \in {<<None, None>>, <<"f1", "f2">>},
        tb \in {<<>>, <<Frame("f1", "g")>>}}

ExceptionArgs == {<<>>, <<[type |-> "str", str |-> "x"]>>, <<[type |-> "str", str |-> "x"], [type |-> "int", str |-> "3"]>>}

ExceptionsRaised ==
    {[NoException EXCEPT !.type = "ValueError", !.args = args] : args \in ExceptionArgs}
    \cup {[NoException EXCEPT !.type = "ValueError", !.tb = tb] : tb \in Tracebacks}

InterruptsRaised ==
    {[NoException EXCEPT !.type = type, !.tb = tb] :
        type \in InterruptTypes, tb \in {<<>>, <<Frame("f1", "g")>>}}

ErrorMessages == {<<"m">>}
ErrorDetails == {<<>>, <<" ", NL>>, <<"d">>, <<"d", NL, NL, "e", NL>>}

InitHook ==
    /\ indentlevel = 0
    /\ indentation = <<>>
    /\ handlers = <<>>
    /\ propagate = TRUE
    /\ files = [p \in Paths |-> Absent]
    /\ cfgArgs = [debugfile |-> None, logfile |-> None, console |-> FALSE]
    /\ op = "init"
    /\ raised = FALSE
    /\ lastN = 0
    /\ lastLevel = NOTSET
    /\ lastMsg = <<>>
    /\ out = <<>>
    /\ discarded = [p \in Paths |-> 0]
    /\ text = <<>>
    /\ exc \in {NoException} \cup OSErrorsRaised \cup ExceptionsRaised \cup InterruptsRaised
    /\ platform \in {"linux", "win32", "darwin"}
    /\ platform = "win32" /\ IsOSError(exc) => exc.has_winerror
    /\ ~exc.has_winerror => exc.winerror = Nothing
    /\ events = <<>>
    /\ result = NoResult
    /\ NoThreads

\* The interpreter calls sys.excepthook as the program dies.
Alive == op # "excepthook"

SetIndentHook == Alive /\ \E n \in 0..MaxIndent : set_indent(n)
ConfigHook == Alive /\ config(None, None, TRUE)
Excepthook == Alive /\ excepthook
Error == exc = NoException /\ \E message \in ErrorMessages, details \in ErrorDetails :
             error(message, details)

NextHook == SetIndentHook \/ ConfigHook \/ Excepthook \/ Error

SpecHook == InitHook /\ [][NextHook]_vars

\* A program on the legacy module: setup_logging has run, the program calls
\* logging.indent() and logging.dedent() and munges one OSError.
LegacyOSErrors ==
    {OSErrorObject(errno, has_winerror, IF has_winerror THEN winerror ELSE Nothing,
                   strerror, None, None, <<>>) :
        errno \in Errnos, has_winerror \in BOOLEAN, winerror \in Winerrors,
        strerror \in {Nothing, Some(<<>>), Some(<<"a">>), Some(<<"a", ".">>)}}

InitLegacy ==
    /\ indentlevel = 0
    /\ indentation = <<>>
    /\ handlers = <<>>
    /\ propagate = TRUE
    /\ files = [p \in Paths |-> Absent]
    /\ cfgArgs = [debugfile |-> None, logfile |-> None, console |-> FALSE]
    /\ op = "init"
    /\ raised = FALSE
    /\ lastN = 0
    /\ lastLevel = NOTSET
    /\ lastMsg = <<>>
    /\ out = <<>>
    /\ discarded = [p \in Paths |-> 0]
    /\ text = <<>>
    /\ exc \in LegacyOSErrors
    /\ platform = "linux"
    /\ events = <<>>
    /\ result = NoResult
    /\ NoThreads

LegacyIndent == legacy_indent
LegacyDedent == legacy_dedent

NextLegacy == LegacyIndent \/ LegacyDedent \/ LegacyMunge

SpecLegacy == InitLegacy /\ [][NextLegacy]_vars

\* Two threads that each call indent() once on the same logger, from any
\* indent level, with nothing serializing the calls.
InitThreads ==
    /\ indentlevel \in 0..MaxIndent
    /\ indentation = Repeat(INDENTCHAR, indentlevel)
    /\ handlers = <<>>
    /\ propagate = TRUE
    /\ files = [p \in Paths |-> Absent]
    /\ cfgArgs = [debugfile |-> None, logfile |-> None, console |-> FALSE]
    /\ op = "init"
    /\ raised = FALSE
    /\ lastN = 0
    /\ lastLevel = NOTSET
    /\ lastMsg = <<>>
    /\ out = <<>>
    /\ discarded = [p \in Paths |-> 0]
    /\ text = <<>>
    /\ exc = NoException
    /\ platform = "linux"
    /\ events = <<>>
    /\ result = NoResult
    /\ pc = [t \in Threads |-> "call"]
    /\ loaded = [t \in Threads |-> 0]
    /\ overlapped = FALSE
    /\ base = indentlevel

ThreadLoad == \E t \in Threads : thread_load(t) /\ ThreadFrame
ThreadStore == \E t \in Threads : thread_store(t) /\ ThreadFrame
ThreadCache == \E t \in Threads : thread_cache(t) /\ ThreadFrame

NextThreads == ThreadLoad \/ ThreadStore \/ ThreadCache

SpecThreads == InitThreads /\ [][NextThreads]_vars

TypeOK ==
    /\ indentlevel \in Int
    /\ raised \in BOOLEAN
    /\ propagate \in BOOLEAN
    /\ \A p \in Paths : files[p] \in Absent..MaxFileLines

\* ================================================================== claims

\* C1: starting from indent level 0, after every sequence of indent(),
\* dedent() and set_indent(n) calls, failing set_indent calls included, the
\* indent level is an integer >= 0.
C1_IndentNonNegative == indentlevel \in Nat

\* A dedent at level 0 and a rejected set_indent have both left the level at 0.
C1_Witness ==
    \/ op = "dedent" /\ indentlevel = 0
    \/ op = "set_indent" /\ raised /\ lastN < 0

\* C2: from every level L >= 0, indent() leaves the level at exactly L + 1
\* and dedent() at exactly max(0, L - 1), and neither call raises.
C2_IndentDedentExact ==
    [][/\ op' = "indent" => indentlevel' = indentlevel + 1 /\ ~raised'
       /\ op' = "dedent" => indentlevel' = Max0(indentlevel - 1) /\ ~raised']_vars

\* indent() has taken the level from 0 to 1.
C2_Witness == op = "indent" /\ indentlevel = 1

\* C3: set_indent(n) with n >= 0 sets the level to exactly n whatever it
\* was; set_indent(n) with n < 0 raises ValueError, writes no log record and
\* leaves the indent level and the indentation string as they were.
C3_SetIndent ==
    [][op' = "set_indent" =>
          IF lastN' >= 0
          THEN indentlevel' = lastN' /\ ~raised'
          ELSE /\ raised'
               /\ out' = <<>>
               /\ indentlevel' = indentlevel
               /\ indentation' = indentation]_vars

\* A negative set_indent was rejected at a non-zero level.
C3_Witness == op = "set_indent" /\ raised /\ lastN < 0 /\ indentlevel = 2

\* C4: a log call at any severity and a config call with any arguments leave
\* the indent level and the indentation string unchanged.
C4_IndentFrame ==
    [][op' \in {"log", "config"} =>
          indentlevel' = indentlevel /\ indentation' = indentation]_vars

\* config was called at a non-zero indent level.
C4_Witness == op = "config" /\ indentlevel = 2 /\ Len(handlers) = 4

\* ------------------------------------------------- what a log call wrote
IsBlank(s) == RStrip(s) = <<>>

HandlerNames == {handlers[i].name : i \in 1..Len(handlers)}
SinksWritten == {out[i].handler : i \in 1..Len(out)}
StreamLines(stream) ==
    LET idx == {i \in 1..Len(out) : out[i].stream = stream}
    IN  IF idx = {} THEN 0 ELSE Len(PhysicalLines(out[CHOOSE i \in idx : TRUE].written))
Configured == ~propagate

\* C5: a message of k lines logged at indent level L gives, on every sink
\* that takes the record, exactly k physical lines in the original order;
\* each non-blank line is the sink's preamble, then L indent characters,
\* then the line's content without its trailing whitespace.
C5_MultilineFidelity ==
    op = "log" =>
        \A i \in 1..Len(out) :
            LET src == Split(lastMsg)
                got == PhysicalLines(out[i].written)
                preamble == FormatOf(out[i].handler, lastLevel)
            IN  /\ Len(got) = Len(src)
                /\ \A j \in 1..Len(src) :
                       ~IsBlank(src[j]) =>
                           got[j] = preamble \o Repeat(INDENTCHAR, indentlevel) \o RStrip(src[j])

\* Two non-blank lines were logged at indent 2 to both files and a console.
C5_Witness ==
    /\ op = "log"
    /\ lastMsg = <<"a", NL, "b">>
    /\ indentlevel = 2
    /\ Len(out) = 3

\* C6 as claimed: an empty or whitespace-only message (spaces, tabs, line
\* breaks) gives exactly one output line on every sink that takes it, the
\* sink's preamble without trailing whitespace and without indent.
C6_BlankIsOneLine ==
    op = "log" /\ IsBlank(lastMsg) =>
        \A i \in 1..Len(out) :
            PhysicalLines(out[i].written) = <<RStrip(FormatOf(out[i].handler, lastLevel))>>

\* C6 as amended: an empty or whitespace-only message gives, on every sink
\* that takes it, one output line per line of the message (exactly one when
\* it holds no line break), each the sink's preamble without trailing
\* whitespace and without indent.
C6_BlankLinesBare ==
    op = "log" /\ IsBlank(lastMsg) =>
        \A i \in 1..Len(out) :
            LET got == PhysicalLines(out[i].written)
            IN  /\ Len(got) = Len(Split(lastMsg))
                /\ \A j \in 1..Len(got) : got[j] = RStrip(FormatOf(out[i].handler, lastLevel))

\* A whitespace-only message was logged at indent 2 to both files and a console.
C6_Witness ==
    /\ op = "log"
    /\ lastMsg \in {<<" ", "\t">>, <<" ", NL, "\t">>}
    /\ indentlevel = 2
    /\ Len(out) = 3

\* C7: with all four sinks configured, a record of severity S is written to
\* the debug file iff S is above NOTSET, to the log file iff S >= INFO, to
\* stdout iff S = INFO and to stderr iff S >= WARNING, each at most once.
C7_Routing ==
    op = "log" /\ HandlerNames = CustomFormatted =>
        /\ Len(out) = Cardinality(SinksWritten)
        /\ "debugfile_handler" \in SinksWritten <=> lastLevel > NOTSET
        /\ "logfile_handler" \in SinksWritten <=> lastLevel >= INFO
        /\ "stdout_handler" \in SinksWritten <=> lastLevel = INFO
        /\ "stderr_handler" \in SinksWritten <=> lastLevel >= WARNING
        /\ ~({"stdout_handler", "stderr_handler"} \subseteq SinksWritten)
        /\ lastLevel = DEBUG => SinksWritten = {"debugfile_handler"}

\* A WARNING record went to the debug file, the log file and stderr.
C7_Witness ==
    /\ op = "log"
    /\ HandlerNames = CustomFormatted
    /\ lastLevel = WARNING
    /\ Len(out) = 3

\* C8: after config(None, None, console=True) a record is written to no
\* file, a DEBUG record gives no output, an INFO record of one line gives
\* one stdout line and no stderr line, an ERROR record of one line gives one
\* stderr line and no stdout line; after config(None, None, console=False)
\* no record of any severity gives any output.
C8_UnconfiguredSilent ==
    op = "log" /\ Configured /\ cfgArgs.debugfile = None /\ cfgArgs.logfile = None =>
        /\ \A i \in 1..Len(out) : out[i].stream \notin Paths
        /\ IF cfgArgs.console
           THEN /\ lastLevel = DEBUG => out = <<>>
                /\ lastLevel = INFO /\ Len(Split(lastMsg)) = 1 =>
                       StreamLines("stdout") = 1 /\ StreamLines("stderr") = 0
                /\ lastLevel = ERROR /\ Len(Split(lastMsg)) = 1 =>
                       StreamLines("stderr") = 1 /\ StreamLines("stdout") = 0
           ELSE out = <<>>

\* C9: after any sequence of config calls the logger's handlers are exactly
\* those the arguments of the last call determine, none of them twice.
C9_ConfigReplaces ==
    Configured =>
        /\ Len(handlers) = Cardinality(HandlerNames)
        /\ "debugfile_handler" \in HandlerNames <=> cfgArgs.debugfile # None
        /\ "logfile_handler" \in HandlerNames <=> cfgArgs.logfile # None
        /\ "stdout_handler" \in HandlerNames <=> cfgArgs.console
        /\ "stderr_handler" \in HandlerNames <=> cfgArgs.console
        /\ \A i \in 1..Len(handlers) :
               /\ handlers[i].name = "debugfile_handler" => handlers[i].stream = cfgArgs.debugfile
               /\ handlers[i].name = "logfile_handler" => handlers[i].stream = cfgArgs.logfile

\* config was called again, with other arguments: the file at p2, which only
\* an earlier config call can have emptied, is no sink of the last call.
C9_Witness ==
    /\ op = "config"
    /\ cfgArgs = [debugfile |-> "p1", logfile |-> None, console |-> FALSE]
    /\ files["p2"] = 0
    /\ Len(handlers) = 1

\* C10: immediately after config returns, the file at every configured path
\* is empty, whatever it held before.
C10_TruncateOnConfig ==
    op = "config" =>
        \A p \in Paths : p \in {cfgArgs.debugfile, cfgArgs.logfile} => files[p] = 0

\* config emptied a file that held two lines, which only log calls under an
\* earlier config call can have written.
C10_Witness ==
    /\ op = "config"
    /\ cfgArgs.logfile = "p1"
    /\ discarded["p1"] = 2
    /\ files["p1"] = 0

\* The place of a sink in the order debug file, log file, standard output,
\* standard error.
SinkRank(name) ==
    CASE name = "debugfile_handler" -> 1
      [] name = "logfile_handler" -> 2
      [] name = "stdout_handler" -> 3
      [] OTHER -> 4

\* C11: the sinks that accept one record are written in the fixed order
\* debug file, log file, standard output, standard error, whatever the record
\* and the earlier calls; and when the log call returns every one of its
\* writes is in its file, after all that earlier records wrote there.
C11_SinkOrder ==
    [][op' = "log" =>
        /\ \A i, j \in 1..Len(out') :
               i < j => SinkRank(out'[i].handler) < SinkRank(out'[j].handler)
        /\ \A p \in Paths : files'[p] = files[p] + LinesTo(out', p)]_vars

\* A second record was written to the debug file, the log file and a console
\* stream, in that order, below the line the first record left in each file.
C11_Witness ==
    /\ op = "log"
    /\ Len(out) = 3
    /\ out[1].handler = "debugfile_handler"
    /\ out[2].handler = "logfile_handler"
    /\ out[3].stream \in {"stdout", "stderr"}
    /\ files[out[1].stream] = 2
    /\ files[out[2].stream] = 2

\* The errno of the exception resolves to a symbolic name.
ErrnoResolves(e) == e.errno # Nothing /\ e.errno[1] # 0 /\ e.errno[1] \in DOMAIN errorcode

\* The exception carries a non-zero native code.
NativePresent(e) == e.has_winerror /\ e.winerror # Nothing /\ e.winerror[1] # 0

\* The number of periods a string ends with.
RECURSIVE TrailingPeriods(_)
TrailingPeriods(str) ==
    IF Len(str) > 0 /\ str[Len(str)] = "."
    THEN 1 + TrailingPeriods(SubSeq(str, 1, Len(str) - 1))
    ELSE 0

\* C12: the unified code munge_oserror returns is "<errno name>/WinError<N>"
\* when the errno resolves to a name and a non-zero native code N is present,
\* the errno name alone when only the errno resolves, "WinError<N>" alone
\* when only the native code is present, and "N/A" otherwise; an errno that
\* is None, zero or not in the table counts as absent in all four cases.
C12_UnifiedCode ==
    op = "munge_oserror" =>
        /\ result.raises = ""
        /\ result.value[2] =
             IF ErrnoResolves(exc) /\ NativePresent(exc)
             THEN <<errorcode[exc.errno[1]], "/", "WinError", Str(exc.winerror[1])>>
             ELSE IF ErrnoResolves(exc) THEN <<errorcode[exc.errno[1]]>>
             ELSE IF NativePresent(exc) THEN <<"WinError", Str(exc.winerror[1])>>
             ELSE <<"N/A">>

\* munge_oserror returned ENOENT/WinError3 for errno 2 with native code 3.
C12_Witness ==
    /\ op = "munge_oserror"
    /\ exc.errno = Some(2)
    /\ exc.has_winerror
    /\ exc.winerror = Some(3)
    /\ result.value[2] = <<"ENOENT", "/", "WinError", "3">>

\* C13: the message munge_oserror returns is the error string with its first
\* character uppercased and ending in a period, an error string that already
\* ends in a period getting no further one; a None or empty error string
\* gives the empty string; and the two filenames are returned as they are,
\* None when absent.
C13_Message ==
    op = "munge_oserror" /\ result.raises = "" =>
        /\ IF TruthyStr(exc.strerror)
           THEN LET strerror == exc.strerror[1]
                    message == result.value[3]
                IN  /\ message[1] = Upper(strerror[1])
                    /\ message[Len(message)] = "."
                    /\ TrailingPeriods(strerror) > 0 =>
                           TrailingPeriods(message) <= TrailingPeriods(strerror)
           ELSE result.value[3] = <<>>
        /\ result.value[4] = exc.filename
        /\ result.value[5] = exc.filename2

\* C14: munge_oserror never raises: whatever the errno, the native code
\* attribute (missing included), the error string and the filenames, it
\* returns five items, with "N/A" for a code that is not available, the empty
\* string for a missing error string and None for a missing filename.
C14_NeverRaises ==
    op = "munge_oserror" =>
        /\ ~raised
        /\ result.raises = ""
        /\ Len(result.value) = 5
        /\ result.value[2] # Nothing
        /\ ~ErrnoResolves(exc) /\ ~NativePresent(exc) => result.value[2] = OSERROR_DETAIL_NA
        /\ ~TruthyStr(exc.strerror) => result.value[3] = <<>>
        /\ exc.filename = None => result.value[4] = None
        /\ exc.filename2 = None => result.value[5] = None

\* munge_oserror returned sentinels only, for an OSError whose errno is not
\* in the table, that has no winerror attribute, and whose error string and
\* filenames are None.
C14_Witness ==
    /\ op = "munge_oserror"
    /\ exc.errno = Some(99)
    /\ ~exc.has_winerror
    /\ exc.strerror = Nothing
    /\ result = Returns(<<"OSError", <<"N/A">>, <<>>, None, None>>)

\* The tokens of a text.
Tokens(msg) == {msg[i] : i \in 1..Len(msg)}

\* The logger.error calls among the events.
ErrorCalls(evs) ==
    LET IsErrorCall(e) == e.ev = "error"
    IN  SelectSeq(evs, IsErrorCall)

\* The events hold a report with a body: the text of that body.
HasBody == Len(ErrorCalls(events)) = 5
ReportBody == ErrorCalls(events)[4].msg

\* The exception excepthook got is KeyboardInterrupt or a subclass of it.
InterruptClassified == exc.type \in InterruptTypes

\* C15: given KeyboardInterrupt or a subclass, excepthook writes no log
\* record to any sink, shows no alert, leaves the indent level as it was and
\* calls the default exception hook exactly once.
C15_InterruptPassthrough ==
    [][op' = "excepthook" /\ InterruptClassified =>
        /\ out' = <<>>
        /\ files' = files
        /\ events' = <<Call("sys.__excepthook__", 0, <<>>)>>
        /\ indentlevel' = indentlevel
        /\ indentation' = indentation
        /\ ~raised']_vars

\* excepthook has handed a subclass of KeyboardInterrupt to the default hook
\* at indent level 2, with console logging configured.
C15_Witness ==
    /\ op = "excepthook"
    /\ exc.type = "UserAbort"
    /\ Configured
    /\ indentlevel = 2
    /\ Len(events) = 1

\* C16: the report excepthook logs for an OSError has the OSError headline
\* and a body of the six labelled fields, and no traceback section, also
\* when the OSError carries a traceback.
C16_OSErrorNoTraceback ==
    op = "excepthook" /\ IsOSError(exc) /\ ~raised =>
        /\ ErrorCalls(events)[2].msg = UNEXPECTED_OSERROR
        /\ HasBody
        /\ {"type = ", "errno = ", "winerror = ", "strerror = ", "filename = ", "filename2 = "}
               \subseteq Tokens(ReportBody)
        /\ TracebackTitle \notin Tokens(ReportBody)

\* C17: excepthook never raises for an OSError, whatever its errno (None,
\* zero, or a number the errno table lacks): it logs the report and returns.
C17_HookNeverRaises ==
    op = "excepthook" /\ IsOSError(exc) =>
        /\ ~raised
        /\ result.raises = ""
        /\ HasBody
        /\ ~ErrnoResolves(exc) => <<"errno = ", "N/A">> \in
               {SubSeq(ReportBody, i, i + 1) : i \in 1..(Len(ReportBody) - 1)}

\* The lines of the report body, and what a line of the traceback section is.
BodyLines == Split(ReportBody)
IsHeaderLine(line) == Len(line) >= 3 /\ line[3] = ">"
IsFrameLine(line) == Len(line) >= 3 /\ line[Len(line)] = "<line>"

\* The body line that shows a frame, and the one that shows a file header.
FrameLine(frame) ==
    <<"|", " ", " ", " ", Str(frame.lineno), ",", " ",
      IF frame.name = "<module>" THEN "legion" ELSE frame.name, ":", " ", frame.line>>
HeaderLine(filename) == <<"|", " ", ">", " ", filename>>

\* C18: for an exception that is neither an OSError nor an interrupt the
\* report shows every traceback frame once, in the original order, and a file
\* header once per maximal run of consecutive frames of the same file, right
\* before the first frame of the run.
C18_TracebackGrouping ==
    op = "excepthook" /\ ~InterruptClassified /\ exc.type \notin OSErrorTypes =>
        /\ ~raised
        /\ HasBody
        /\ LET frameAt == {k \in 1..Len(BodyLines) : IsFrameLine(BodyLines[k])}
               headerAt == {k \in 1..Len(BodyLines) : IsHeaderLine(BodyLines[k])}
               pos(i) == CHOOSE k \in frameAt : Cardinality({j \in frameAt : j <= k}) = i
               RunStart(i) == i = 1 \/ exc.tb[i].filename # exc.tb[i - 1].filename
           IN  /\ Cardinality(frameAt) = Len(exc.tb)
               /\ \A i \in 1..Len(exc.tb) : BodyLines[pos(i)] = FrameLine(exc.tb[i])
               /\ Cardinality(headerAt) = Cardinality({i \in 1..Len(exc.tb) : RunStart(i)})
               /\ \A i \in 1..Len(exc.tb) :
                      RunStart(i) => BodyLines[pos(i) - 1] = HeaderLine(exc.tb[i].filename)
               /\ Len(exc.tb) > 0 <=> TracebackTitle \in Tokens(ReportBody)

\* excepthook has reported a ValueError whose three frames are in f1, f2
\* and f1 again: the body shows three file headers.
C18_Witness ==
    /\ op = "excepthook"
    /\ exc.type = "ValueError"
    /\ Len(exc.tb) = 3
    /\ exc.tb[1].filename = "f1"
    /\ exc.tb[2].filename = "f2"
    /\ exc.tb[3].filename = "f1"
    /\ HasBody
    /\ Cardinality({k \in 1..Len(BodyLines) : IsHeaderLine(BodyLines[k])}) = 3

\* The calls the most recent report made on the logger.
LoggerCalls ==
    LET OnLogger(e) == e.ev \in {"set_indent", "error"}
    IN  SelectSeq(events, OnLogger)

\* C19: in every case that is no interrupt the report is logged at error
\* severity in this order: indent reset to 0, header at indent 0, indent set
\* to the payload indent 4, headline and body at that indent, indent reset to
\* 0; so the indent level is 0 after error() or excepthook.
C19_ReportOrder ==
    (op = "error" \/ (op = "excepthook" /\ ~InterruptClassified)) =>
        /\ Len(LoggerCalls) >= 5
        /\ LoggerCalls[1] = Call("set_indent", 0, <<>>)
        /\ LoggerCalls[2] = Call("error", 0, ERROR_HEADER)
        /\ LoggerCalls[3] = Call("set_indent", 4, <<>>)
        /\ LoggerCalls[4] = Call("error", 4, lastMsg)
        /\ \A i \in 4..(Len(LoggerCalls) - 1) :
               LoggerCalls[i].ev = "error" /\ LoggerCalls[i].n = 4
        /\ LoggerCalls[Len(LoggerCalls)] = Call("set_indent", 0, <<>>)
        /\ lastLevel = ERROR
        /\ indentlevel = 0

\* C20: the alert is shown only by excepthook for an exception that is no
\* interrupt, only after the whole report has been logged and the indent
\* reset, and its text is one of the two fixed headlines and nothing else.
C20_AlertAfterReport ==
    \A i \in 1..Len(events) :
        events[i].ev = "alert" =>
            /\ op = "excepthook"
            /\ ~InterruptClassified
            /\ i = Len(events)
            /\ Len(ErrorCalls(events)) \in {2, 5}
            /\ events[i - 1] = Call("set_indent", 0, <<>>)
            /\ events[i].msg \in {UNEXPECTED_OSERROR, UNHANDLED_EXCEPTION}

\* On win32 excepthook has reported an OSError that carries a traceback and
\* then shown the alert.
C20_Witness ==
    /\ op = "excepthook"
    /\ platform = "win32"
    /\ exc.type = "OSError"
    /\ Len(exc.tb) > 0
    /\ Len(events) = 9
    /\ events[9] = Call("alert", 0, UNEXPECTED_OSERROR)

\* C21: in the legacy module, after setup_logging, whatever logging.indent()
\* and logging.dedent() calls without argument are made, the root logger's
\* indent level is never negative: a dedent at level 0 leaves it at 0.
C21_LegacyIndentNonNegative ==
    op \in {"logging.indent", "logging.dedent"} => indentlevel >= 0

\* C22: in the legacy module, munge_oserror of an OSError whose strerror is
\* None or empty returns the empty string as third item and does not raise.
C22_LegacyNoStrerror ==
    op = "legacy.munge_oserror" /\ ~TruthyStr(exc.strerror) =>
        /\ ~raised
        /\ result.raises = ""
        /\ result.value[3] = <<>>

\* C23: the indent counter has no mutual exclusion. A thread that is about
\* to call indent() can always start, also while the other thread is between
\* its read and its writes; when both calls are done the level has grown by 1
\* or by 2, and by exactly 2 when the calls did not overlap.
C23_NoMutualExclusion ==
    /\ \A t \in Threads : pc[t] = "call" => ENABLED (thread_load(t) /\ ThreadFrame)
    /\ (\A t \in Threads : pc[t] = "done") =>
           /\ indentlevel \in {base + 1, base + 2}
           /\ ~overlapped => indentlevel = base + 2

\* Both calls are done and the level has grown by 1 only: both threads read
\* the same level before either stored its result.
C23_Witness ==
    /\ \A t \in Threads : pc[t] = "done"
    /\ overlapped
    /\ loaded[1] = loaded[2]
    /\ indentlevel = base + 1

\* C24: in every state of single-threaded use of the packaged logger the
\* cached indentation string is the indent character repeated indent-level
\* times, so a record made now gets a prefix of exactly that length.
C24_IndentationCache ==
    /\ Len(indentation) = indentlevel
    /\ \A i \in 1..Len(indentation) : indentation[i] = INDENTCHAR
    /\ makeRecord(<<"a">>) =
           [i \in 1..(indentlevel + 1) |-> IF i <= indentlevel THEN INDENTCHAR ELSE "a"]

\* A dedent has taken the level from 3 to 2, and the cache holds two indent
\* characters.
C24_Witness ==
    /\ op = "dedent"
    /\ indentlevel = 2
    /\ indentation = <<INDENTCHAR, INDENTCHAR>>

====
